---- MODULE Spec2Model ----
(***************************************************************************)
(* Master Wilayah Indonesia (src/data_master.py): the dataset loader, the  *)
(* memoized suggestion resolver and the /search filter-and-project         *)
(* handler, as a state machine.                                            *)
(*                                                                         *)
(* A Python str is a sequence of one-character strings, so that strip,     *)
(* zfill, lower, isdigit, slicing, startswith and the regular-expression   *)
(* search behind pandas' str.contains are computed, not assumed.  A        *)
(* DataFrame is the sequence of its rows; a filtered DataFrame is the      *)
(* sequence of the index labels (positions in df_master) it keeps, which   *)
(* is what pandas' boolean indexing preserves.                             *)
(*                                                                         *)
(* df_master is the module's global table, cache the memo of               *)
(* get_cached_suggestions, response the outcome of the last call, and      *)
(* loading the position of a load_data call in progress with its local     *)
(* table df.                                                               *)
(***************************************************************************)
EXTENDS Naturals, Sequences, FiniteSets, TLC

VARIABLES df_master, cache, response, loading

vars == <<df_master, cache, response, loading>>

(***************************************************************************)
(* Characters and Python's str methods                                     *)
(***************************************************************************)

\* The characters the model draws from, in code-point order (Python compares
\* str values code point by code point).
Ascii ==
    << " ", "(", "-", ".",
       "0", "1", "2", "3", "4", "5", "6", "7", "8", "9",
       "A", "B", "C", "D", "E", "F", "G", "H", "I", "J", "K", "L", "M",
       "N", "O", "P", "Q", "R", "S", "T", "U", "V", "W", "X", "Y", "Z",
       "a", "b", "c", "d", "e", "f", "g", "h", "i", "j", "k", "l", "m",
       "n", "o", "p", "q", "r", "s", "t", "u", "v", "w", "x", "y", "z" >>

Chars == {Ascii[i] : i \in 1..Len(Ascii)}

Ord == [c \in Chars |-> CHOOSE i \in 1..Len(Ascii) : Ascii[i] = c]

DigitChars == <<"0", "1", "2", "3", "4", "5", "6", "7", "8", "9">>

Digits == {DigitChars[i] : i \in 1..Len(DigitChars)}

Whitespace == {" "}

UpperCase == {Ascii[i] : i \in Ord["A"]..Ord["Z"]}

\* The list whose elements are f[1], ..., f[Len(f)]: a Python list or pandas
\* column holds its elements, it does not compute them again when read.
List(f) == <<>> \o f

\* str.lower() on one character: 'A'..'Z' are 32 code points below 'a'..'z'.
LowerChar(c) == IF c \in UpperCase THEN Ascii[Ord[c] + (Ord["a"] - Ord["A"])] ELSE c

\* str.lower()
Lower(s) == List([i \in 1..Len(s) |-> LowerChar(s[i])])

\* str.isdigit(): non-empty and every character a digit.
IsDigit(s) == Len(s) > 0 /\ \A i \in 1..Len(s) : s[i] \in Digits

\* s[:n]
Prefix(s, n) == IF Len(s) <= n THEN s ELSE SubSeq(s, 1, n)

RECURSIVE LStrip(_)
LStrip(s) == IF s # <<>> /\ Head(s) \in Whitespace THEN LStrip(Tail(s)) ELSE s

RECURSIVE RStrip(_)
RStrip(s) ==
    IF s # <<>> /\ s[Len(s)] \in Whitespace THEN RStrip(SubSeq(s, 1, Len(s) - 1)) ELSE s

\* str.strip()
Strip(s) == RStrip(LStrip(s))

Zeros(n) == [i \in 1..n |-> "0"]

\* str.zfill(width): a string already as long as width is returned as is; a
\* leading sign stays in front of the zeros.
ZFill(s, width) ==
    IF Len(s) >= width THEN s
    ELSE IF s # <<>> /\ Head(s) \in {"+", "-"}
         THEN <<Head(s)>> \o Zeros(width - Len(s)) \o Tail(s)
         ELSE Zeros(width - Len(s)) \o s

\* str.startswith(q) (pandas' str.startswith takes the pattern literally).
StartsWith(s, q) == Len(q) <= Len(s) /\ SubSeq(s, 1, Len(q)) = q

\* Python's str comparison: a < b.
RECURSIVE StrLess(_, _)
StrLess(a, b) ==
    IF b = <<>> THEN FALSE
    ELSE IF a = <<>> THEN TRUE
    ELSE IF Head(a) = Head(b) THEN StrLess(Tail(a), Tail(b))
    ELSE Ord[Head(a)] < Ord[Head(b)]

(***************************************************************************)
(* pandas' Series.str.contains(pat, na=False): regex=True by default, so   *)
(* pat is compiled with re.compile and searched with re.search.  Of the    *)
(* characters above, "." matches any character and "(" opens a group that  *)
(* nothing closes (re.error); every other character matches itself.        *)
(***************************************************************************)
RegexValid(pat) == \A k \in 1..Len(pat) : pat[k] # "("

RegexMatchAt(pat, s, i) ==
    /\ i + Len(pat) - 1 <= Len(s)
    /\ \A k \in 1..Len(pat) : pat[k] = "." \/ pat[k] = s[i + k - 1]

StrContains(s, pat) == \E i \in 1..(Len(s) + 1) : RegexMatchAt(pat, s, i)


(***************************************************************************)
(* The tabular source (master.csv) and load_data                           *)
(***************************************************************************)

CodeColumns == <<"kode_prov", "kode_kab", "kode_kec", "kode_desa">>

NameColumns == <<"nama_prov", "kab_nama", "kec_nama", "desa_nama">>

SearchColumns == <<"_search_prov", "_search_kab", "_search_kec", "_search_desa">>

\* The zfill width of each code column (lines 80-83).
CodeWidth == <<2, 2, 3, 3>>

Levels == 1..4

RequiredColumns ==
    {CodeColumns[l] : l \in Levels} \cup {NameColumns[l] : l \in Levels}

\* pandas.read_csv's default missing-value markers that the characters above
\* can spell; an empty field is one of them.
NaValues ==
    { <<>>, <<"N", "A">>, <<"N", "a", "N">>, <<"n", "a", "n">>,
      <<"N", "U", "L", "L">>, <<"n", "u", "l", "l">>, <<"N", "o", "n", "e">> }

\* A plausible slip: read_csv told to keep the markers as text
\* (keep_default_na=False).
ReadCell_keepMarkers(c) == c

\* pd.read_csv(DATA_PATH, dtype=str).fillna(""): a missing cell becomes "".
ReadCell(c) == IF c \in NaValues THEN <<>> ELSE c

\* How many rows the generated sources hold beyond a cap of the program.
Extra == 2

\* The suggestion list's cap: .head(20).
SuggestHead == 20

\* The result table's cap: LIMIT = 100.
LIMIT == 100

\* The length /search cuts its inputs to: val = val[:50].
TRUNCATE == 50

\* A village name of exactly TRUNCATE characters.
LongName == List([i \in 1..TRUNCATE |-> IF i = TRUNCATE THEN "Z" ELSE "A"])

RECURSIVE Dec(_)
Dec(n) == IF n < 10 THEN <<DigitChars[n + 1]>> ELSE Dec(n \div 10) \o <<DigitChars[(n % 10) + 1]>>

\* A hand-written table: codes not yet padded, rows not in code order, a
\* regency code ("01") shared by three provinces, names that share prefixes
\* and substrings.
SourceA ==
    [ readable |-> TRUE, columns |-> RequiredColumns, rows |->
      << [kode_prov |-> <<"3", "2">>, nama_prov |-> <<"J", "a", "b", "a", "r">>, kode_kab |-> <<"1">>, kab_nama |-> <<"B", "o", "g", "o", "r">>, kode_kec |-> <<"1", "0">>, kec_nama |-> <<"C", "i", "a", "w", "i">>, kode_desa |-> <<"1">>, desa_nama |-> <<"B", "a", "n", "j", "a", "r">>],
         [kode_prov |-> <<"3", "2">>, nama_prov |-> <<"J", "a", "b", "a", "r">>, kode_kab |-> <<"3">>, kab_nama |-> <<"B", "a", "n", "j", "a", "r">>, kode_kec |-> <<"3", "0">>, kec_nama |-> <<"P", "a", "l", "u">>, kode_desa |-> <<"3">>, desa_nama |-> <<"H", "e", "g", "a", "r">>],
         [kode_prov |-> <<"3", "1">>, nama_prov |-> <<"D", "K", "I">>, kode_kab |-> <<"1">>, kab_nama |-> <<"J", "a", "k", "s", "e", "l">>, kode_kec |-> <<"1", "0">>, kec_nama |-> <<"T", "e", "b", "e", "t">>, kode_desa |-> <<"2">>, desa_nama |-> <<"B", "u", "k", "i", "t">>],
         [kode_prov |-> <<"3", "1">>, nama_prov |-> <<"D", "K", "I">>, kode_kab |-> <<"1">>, kab_nama |-> <<"J", "a", "k", "s", "e", "l">>, kode_kec |-> <<"1", "0">>, kec_nama |-> <<"T", "e", "b", "e", "t">>, kode_desa |-> <<"1">>, desa_nama |-> <<"M", "a", "n", "g", "g", "a">>],
         [kode_prov |-> <<"3", "1">>, nama_prov |-> <<"D", "K", "I">>, kode_kab |-> <<"2">>, kab_nama |-> <<"J", "a", "k", "b", "a", "r">>, kode_kec |-> <<"2", "0">>, kec_nama |-> <<"K", "a", "l", "i">>, kode_desa |-> <<"1">>, desa_nama |-> <<"P", "e", "g", "a", "d", "u">>],
         [kode_prov |-> <<"3", "3">>, nama_prov |-> <<"Z", "o", "n", "a", "3">>, kode_kab |-> <<"1">>, kab_nama |-> <<"R", "a", "j", " ", "K", "o", "t">>, kode_kec |-> <<"1", "0">>, kec_nama |-> <<"T", "e", "b", "e", "t">>, kode_desa |-> <<"1">>, desa_nama |-> <<"J", "a", "t", "i">>] >> ]

\* A dirty table: padded with blanks, missing cells, a code longer than its
\* width, codes that are not numbers, rows that repeat all four codes, a
\* name as long as the cut /search applies to its inputs.
SourceB ==
    [ readable |-> TRUE, columns |-> RequiredColumns, rows |->
      << [kode_prov |-> <<" ", "3", "1", " ">>, nama_prov |-> <<"D", "K", "I">>, kode_kab |-> <<"0", "1">>, kab_nama |-> <<"J", "A", "K", "S", "E", "L">>, kode_kec |-> <<"N", "A">>, kec_nama |-> <<>>, kode_desa |-> <<"1", "2", "3", "4">>, desa_nama |-> LongName],
         [kode_prov |-> <<"3", "1">>, nama_prov |-> <<"D", "K", "I">>, kode_kab |-> <<"1">>, kab_nama |-> <<"J", "a", "k", "s", "e", "l">>, kode_kec |-> <<>>, kec_nama |-> <<>>, kode_desa |-> <<"1", "2", "3", "4">>, desa_nama |-> <<"L", "a", "i", "n">>],
         [kode_prov |-> <<"-", "1">>, nama_prov |-> <<"N", "e", "g">>, kode_kab |-> <<"A", "1">>, kab_nama |-> <<"A", "l", "p", "h", "a">>, kode_kec |-> <<"7">>, kec_nama |-> <<"T", "u", "j", "u", "h">>, kode_desa |-> <<>>, desa_nama |-> <<"n", "u", "l", "l">>],
         [kode_prov |-> <<" ", "3", "1", " ">>, nama_prov |-> <<"D", "K", "I">>, kode_kab |-> <<"0", "1">>, kab_nama |-> <<"J", "A", "K", "S", "E", "L">>, kode_kec |-> <<"N", "A">>, kec_nama |-> <<>>, kode_desa |-> <<"1", "2", "3", "4">>, desa_nama |-> LongName] >> ]

\* SuggestHead + Extra regencies of one province, in descending code order;
\* the number in a regency's name is not the number its code spells.
SourceM ==
    [ readable |-> TRUE, columns |-> RequiredColumns, rows |->
      [ i \in 1..(SuggestHead + Extra) |->
          [ kode_prov |-> <<"1", "1">>, nama_prov |-> <<"A", "c", "e", "h">>,
            kode_kab |-> Dec(SuggestHead + Extra + 1 - i),
            kab_nama |-> <<"K", "a", "b">> \o Dec(i),
            kode_kec |-> <<"1">>, kec_nama |-> <<"K", "o", "t", "a">>,
            kode_desa |-> <<"1">>, desa_nama |-> <<"D", "e", "s", "a">> ] ] ]

\* LIMIT + Extra districts of one regency; the first Extra districts have two
\* villages each, the others one.
SourceL ==
    [ readable |-> TRUE, columns |-> RequiredColumns, rows |->
      [ i \in 1..(LIMIT + 2 * Extra) |->
          [ kode_prov |-> <<"9", "1">>, nama_prov |-> <<"J", "a", "y", "a">>,
            kode_kab |-> <<"1">>, kab_nama |-> <<"R", "a", "y", "a">>,
            kode_kec |-> Dec(IF i <= 2 * Extra THEN (i + 1) \div 2 ELSE i - Extra),
            kec_nama |-> <<"T", "e", "g", "a", "l">>,
            kode_desa |-> Dec(IF i <= 2 * Extra THEN 2 - (i % 2) ELSE 1),
            desa_nama |-> <<"D", "e", "s", "a">> ] ] ]

\* A table with a header and no data row.
SourceEmpty == [readable |-> TRUE, columns |-> RequiredColumns, rows |-> <<>>]

\* master.csv is absent or cannot be parsed: read_csv raises.
SourceMissing == [readable |-> FALSE, columns |-> {}, rows |-> <<>>]

\* A table without the kab_nama column: df["kab_nama"] raises KeyError.
SourceNoColumn ==
    [ readable |-> TRUE, columns |-> RequiredColumns \ {"kab_nama"}, rows |->
      << [ kode_prov |-> <<"3", "1">>, nama_prov |-> <<"D", "K", "I">>,
           kode_kab |-> <<"1">>,
           kode_kec |-> <<"1", "0">>, kec_nama |-> <<"T", "e", "b", "e", "t">>,
           kode_desa |-> <<"1">>, desa_nama |-> <<"B", "u", "k", "i", "t">> ] >> ]

\* pd.DataFrame()
EmptyFrame == <<>>

\* One row after lines 78-88: every cell read with fillna(""), the four codes
\* stripped and zero-filled, the four lowercase search columns added.
LoadRow(raw) ==
    [ kode_prov |-> ZFill(Strip(ReadCell(raw["kode_prov"])), CodeWidth[1]),
      kode_kab |-> ZFill(Strip(ReadCell(raw["kode_kab"])), CodeWidth[2]),
      kode_kec |-> ZFill(Strip(ReadCell(raw["kode_kec"])), CodeWidth[3]),
      kode_desa |-> ZFill(Strip(ReadCell(raw["kode_desa"])), CodeWidth[4]),
      nama_prov |-> ReadCell(raw["nama_prov"]),
      kab_nama |-> ReadCell(raw["kab_nama"]),
      kec_nama |-> ReadCell(raw["kec_nama"]),
      desa_nama |-> ReadCell(raw["desa_nama"]),
      _search_prov |-> Lower(ReadCell(raw["nama_prov"])),
      _search_kab |-> Lower(ReadCell(raw["kab_nama"])),
      _search_kec |-> Lower(ReadCell(raw["kec_nama"])),
      _search_desa |-> Lower(ReadCell(raw["desa_nama"])) ]

\* The table load_data leaves in df_master: the normalized table, or the empty
\* frame of the except branch when read_csv or a column access raises.
LoadFrame(src) ==
    IF ~src.readable \/ ~(RequiredColumns \subseteq src.columns)
    THEN EmptyFrame
    ELSE List([i \in 1..Len(src.rows) |-> LoadRow(src.rows[i])])

\* df.empty
IsEmpty(df) == Len(df) = 0


(***************************************************************************)
(* /search: api_search_table                                               *)
(***************************************************************************)

\* Whether the call apply_filter(df, val, is_exact, ...) raises: it does when
\* it reaches str.contains with a pattern re.compile rejects.
ApplyFilterRaises(val, is_exact, code_len) ==
    /\ val # <<>>
    /\ ~(IsDigit(Prefix(val, TRUNCATE)) /\ Len(Prefix(val, TRUNCATE)) = code_len)
    /\ ~is_exact
    /\ ~RegexValid(Lower(Prefix(val, TRUNCATE)))

\* A plausible slip: the exact flag tested before the code test.
apply_filter_exactFirst(T, df, val, is_exact, col_code, col_search, code_len) ==
    IF val = <<>> THEN df
    ELSE LET v == Prefix(val, TRUNCATE)
             val_lower == Lower(v)
         IN  IF is_exact
             THEN SelectSeq(df, LAMBDA i : T[i][col_search] = val_lower)
             ELSE IF IsDigit(v) /\ Len(v) = code_len
                  THEN SelectSeq(df, LAMBDA i : T[i][col_code] = v)
                  ELSE SelectSeq(df, LAMBDA i : StrContains(T[i][col_search], val_lower))

\* apply_filter (lines 177-183) on the frame whose rows are those of T at the
\* index labels df.
apply_filter(T, df, val, is_exact, col_code, col_search, code_len) ==
    IF val = <<>> THEN df
    ELSE LET v == Prefix(val, TRUNCATE)
             val_lower == Lower(v)
         IN  IF IsDigit(v) /\ Len(v) = code_len
             THEN SelectSeq(df, LAMBDA i : T[i][col_code] = v)
             ELSE IF is_exact
                  THEN SelectSeq(df, LAMBDA i : T[i][col_search] = val_lower)
                  ELSE SelectSeq(df, LAMBDA i : StrContains(T[i][col_search], val_lower))

\* The arguments of /search, by level.
ArgVal(a, l) == <<a.prov, a.kab, a.kec, a.desa>>[l]

ArgExact(a, l) == <<a.prov_exact, a.kab_exact, a.kec_exact, a.desa_exact>>[l]

\* A plausible slip: each level filters df_master instead of subset, so the
\* last level applied wins.
RECURSIVE FilterStages_fromMaster(_, _, _)
FilterStages_fromMaster(T, a, l) ==
    IF l = 0 THEN << List([i \in 1..Len(T) |-> i]) >>
    ELSE LET before == FilterStages_fromMaster(T, a, l - 1)
         IN  Append(before,
                    IF ArgVal(a, l) = <<>> THEN before[l]
                    ELSE apply_filter(T, before[1], ArgVal(a, l), ArgExact(a, l),
                                      CodeColumns[l], SearchColumns[l], CodeWidth[l]))

\* The values of the local variable subset at line 175 and after each of
\* lines 185-188.
RECURSIVE FilterStages(_, _, _)
FilterStages(T, a, l) ==
    IF l = 0 THEN << List([i \in 1..Len(T) |-> i]) >>
    ELSE LET before == FilterStages(T, a, l - 1)
         IN  Append(before,
                    apply_filter(T, before[l], ArgVal(a, l), ArgExact(a, l),
                                 CodeColumns[l], SearchColumns[l], CodeWidth[l]))

\* A plausible slip: expand applied without the view_level < 4 test.
ViewLevel_expandAlways(a) ==
    LET base == IF a.desa # <<>> THEN 4
                ELSE IF a.kec # <<>> THEN 3
                ELSE IF a.kab # <<>> THEN 2
                ELSE IF a.prov # <<>> THEN 1
                ELSE 4
    IN  IF a.expand THEN base + 1 ELSE base

\* Lines 198-205.
ViewLevel(a) ==
    LET base == IF a.desa # <<>> THEN 4
                ELSE IF a.kec # <<>> THEN 3
                ELSE IF a.kab # <<>> THEN 2
                ELSE IF a.prov # <<>> THEN 1
                ELSE 4
    IN  IF a.expand /\ base < 4 THEN base + 1 ELSE base

\* The codes of row i from the province down to level n.
CodeKey(T, i, n) == [l \in 1..n |-> T[i][CodeColumns[l]]]

\* A plausible slip: duplicates judged by the view level's own code column
\* instead of the codes from the province down.
drop_duplicates_lastColumn(T, df, n) ==
    LET key == List([k \in 1..Len(df) |-> T[df[k]][CodeColumns[n]]])
        kept == SelectSeq([k \in 1..Len(df) |-> k],
                          LAMBDA k : \A j \in 1..(k - 1) : key[j] # key[k])
    IN  List([r \in 1..Len(kept) |-> df[kept[r]]])

\* DataFrame.drop_duplicates(subset=[the first n code columns]): the first
\* row of each key is kept.
drop_duplicates(T, df, n) ==
    LET key == List([k \in 1..Len(df) |-> CodeKey(T, df[k], n)])
        kept == SelectSeq([k \in 1..Len(df) |-> k],
                          LAMBDA k : \A j \in 1..(k - 1) : key[j] # key[k])
    IN  List([r \in 1..Len(kept) |-> df[kept[r]]])

\* Lines 207-209: no drop_duplicates call is made at view level 4.
Deduplicate(T, df, view_level) ==
    IF view_level \in 1..3 THEN drop_duplicates(T, df, view_level) ELSE df

\* A plausible slip: the count taken after subset.head(LIMIT).
TotalFound_afterHead(deduped) == Len(Prefix(deduped, LIMIT))

\* total_found = len(subset), taken before subset.head(LIMIT).
TotalFound(deduped) == Len(deduped)

\* subset.head(LIMIT)
HeadRows(deduped) == Prefix(deduped, LIMIT)

\* info_limit is rendered if total_found > LIMIT.
InfoLimit(total_found) == total_found > LIMIT

\* A plausible slip: the expand flag counted among the criteria.
NoCriteria_withExpand(a) == (\A l \in Levels : ArgVal(a, l) = <<>>) /\ ~a.expand

\* Line 159: not any([prov, kab, kec, desa]).
NoCriteria(a) == \A l \in Levels : ArgVal(a, l) = <<>>

NoTable ==
    [ view_level |-> 0, stages |-> <<>>, deduped |-> <<>>, rows |-> <<>>,
      total_found |-> 0, info_limit |-> FALSE ]

\* What api_search_table returns for the arguments a over the table T.
\* stages and deduped are the values its local variable subset takes: after
\* line 175 and each of lines 185-188, and after lines 207-209.
SearchTable(T, a) ==
    IF IsEmpty(T) THEN [status |-> "no_dataset"] @@ NoTable
    ELSE IF NoCriteria(a) THEN [status |-> "awaiting"] @@ NoTable
    ELSE IF \E l \in Levels : ApplyFilterRaises(ArgVal(a, l), ArgExact(a, l), CodeWidth[l])
         THEN [status |-> "error"] @@ NoTable
    ELSE LET stages == FilterStages(T, a, 4)
             subset == stages[5]
         IN  IF IsEmpty(subset)
             THEN [NoTable EXCEPT !.stages = stages] @@ [status |-> "no_matches"]
             ELSE LET view_level == ViewLevel(a)
                      deduped == Deduplicate(T, subset, view_level)
                      total_found == TotalFound(deduped)
                  IN  [ status |-> "success", view_level |-> view_level,
                        stages |-> stages, deduped |-> deduped,
                        rows |-> HeadRows(deduped),
                        total_found |-> total_found,
                        info_limit |-> InfoLimit(total_found) ]

SearchArgs(prov, prov_exact, kab, kab_exact, kec, kec_exact, desa, desa_exact, expand) ==
    [ prov |-> prov, prov_exact |-> prov_exact, kab |-> kab, kab_exact |-> kab_exact,
      kec |-> kec, kec_exact |-> kec_exact, desa |-> desa, desa_exact |-> desa_exact,
      expand |-> expand ]

\* GET /search
api_search_table(a) ==
    /\ response' = [op |-> "search", args |-> a] @@ SearchTable(df_master, a)
    /\ UNCHANGED <<df_master, cache, loading>>


(***************************************************************************)
(* Suggestions: get_cached_suggestions behind functools.lru_cache          *)
(***************************************************************************)

\* The keys of config (lines 116-121), in hierarchy order.
LevelNames == <<"prov", "kabupaten", "kecamatan", "desa">>

LevelOf(level) == CHOOSE l \in Levels : LevelNames[l] = level

IsLevel(level) == \E l \in Levels : LevelNames[l] = level

\* A plausible slip: the province argument is not applied.
AncestorScope_noProv(T, prov, kab, kec) ==
    LET all == List([i \in 1..Len(T) |-> i])
        byKab == IF kab # <<>> THEN SelectSeq(all, LAMBDA i : T[i]["kode_kab"] = kab) ELSE all
    IN  IF kec # <<>> THEN SelectSeq(byKab, LAMBDA i : T[i]["kode_kec"] = kec) ELSE byKab

\* Lines 109-113: each non-empty ancestor argument narrows the table by
\* equality on its code column, whatever the requested level is.
AncestorScope(T, prov, kab, kec) ==
    LET all == List([i \in 1..Len(T) |-> i])
        byProv == IF prov # <<>> THEN SelectSeq(all, LAMBDA i : T[i]["kode_prov"] = prov) ELSE all
        byKab == IF kab # <<>> THEN SelectSeq(byProv, LAMBDA i : T[i]["kode_kab"] = kab) ELSE byProv
    IN  IF kec # <<>> THEN SelectSeq(byKab, LAMBDA i : T[i]["kode_kec"] = kec) ELSE byKab

\* q = query.strip().lower()
NormalQuery(query) == Lower(Strip(query))

\* A plausible slip: a digit query matched at the start of the code only.
TextFilter_digitPrefix(T, subset, l, q) ==
    IF IsDigit(q)
    THEN SelectSeq(subset, LAMBDA i : StartsWith(T[i][CodeColumns[l]], q))
    ELSE IF Len(q) = 1
         THEN SelectSeq(subset, LAMBDA i : StartsWith(T[i][SearchColumns[l]], q))
         ELSE SelectSeq(subset, LAMBDA i : StrContains(T[i][SearchColumns[l]], q))

\* Lines 130-136 on the frame subset, for the non-empty normalized query q.
TextFilter(T, subset, l, q) ==
    IF IsDigit(q)
    THEN SelectSeq(subset, LAMBDA i : StrContains(T[i][CodeColumns[l]], q))
    ELSE IF Len(q) = 1
         THEN SelectSeq(subset, LAMBDA i : StartsWith(T[i][SearchColumns[l]], q))
         ELSE SelectSeq(subset, LAMBDA i : StrContains(T[i][SearchColumns[l]], q))

\* subset[[col_code, col_name]]
CodeNamePairs(T, subset, l) ==
    List([k \in 1..Len(subset) |->
             <<T[subset[k]][CodeColumns[l]], T[subset[k]][NameColumns[l]]>>])

\* DataFrame.drop_duplicates() over the two projected columns, first kept.
DropDuplicatePairs(pairs) ==
    LET kept == SelectSeq([k \in 1..Len(pairs) |-> k],
                          LAMBDA k : \A j \in 1..(k - 1) : pairs[j] # pairs[k])
    IN  List([r \in 1..Len(kept) |-> pairs[kept[r]]])

\* DataFrame.sort_values(col_code): ascending by the code string.  The order
\* the sort leaves among pairs of equal code is a function of its input; it
\* is taken here to be their order in the input.
SortByCode(pairs) ==
    LET position == List([k \in 1..Len(pairs) |->
                        Cardinality({j \in 1..Len(pairs) : StrLess(pairs[j][1], pairs[k][1])})
                        + Cardinality({j \in 1..k : pairs[j][1] = pairs[k][1]})])
    IN  List([r \in 1..Len(pairs) |-> pairs[CHOOSE k \in 1..Len(pairs) : position[k] = r]])

\* A plausible slip: head(20) taken before sort_values.
TopSuggestions_headFirst(pairs) == SortByCode(Prefix(DropDuplicatePairs(pairs), SuggestHead))

\* Line 138.
TopSuggestions(pairs) == Prefix(SortByCode(DropDuplicatePairs(pairs)), SuggestHead)

\* Whether the body of get_cached_suggestions raises: only its
\* str.contains on the name column compiles a user-supplied pattern.
SuggestionsRaise(T, level, query, prov, kab, kec) ==
    /\ ~IsEmpty(T)
    /\ ~IsEmpty(AncestorScope(T, prov, kab, kec))
    /\ IsLevel(level)
    /\ NormalQuery(query) # <<>>
    /\ ~IsDigit(NormalQuery(query))
    /\ Len(NormalQuery(query)) # 1
    /\ ~RegexValid(NormalQuery(query))

\* The body of get_cached_suggestions (lines 108-138) over the table T.
Suggestions(T, level, query, prov, kab, kec) ==
    IF IsEmpty(T) THEN <<>>
    ELSE LET subset == AncestorScope(T, prov, kab, kec)
         IN  IF IsEmpty(subset) THEN <<>>
             ELSE IF ~IsLevel(level) THEN <<>>
             ELSE LET l == LevelOf(level)
                      q == NormalQuery(query)
                      matched == IF q # <<>> THEN TextFilter(T, subset, l, q) ELSE subset
                  IN  TopSuggestions(CodeNamePairs(T, matched, l))

\* lru_cache(maxsize=1024), with a capacity small enough for evictions to
\* happen within the calls the model makes.
maxsize == 2

CacheKey(level, query, prov, kab, kec) == <<level, query, prov, kab, kec>>

\* A plausible slip: the memo keyed by the level alone.
CacheIndex_byLevel(c, key) ==
    IF \E i \in 1..Len(c) : c[i].key[1] = key[1]
    THEN CHOOSE i \in 1..Len(c) : c[i].key[1] = key[1]
    ELSE CHOOSE i \in 1..Len(c) : c[i].key = key

CacheIndex(c, key) == CHOOSE i \in 1..Len(c) : c[i].key = key

\* A cache hit: whether an entry for the key is present.
CacheHit(c, key) == \E i \in 1..Len(c) : c[i].key = key

\* The value a hit returns.
CacheValue(c, key) == c[CacheIndex(c, key)].value

\* A hit makes the entry the most recently used (the last of the sequence).
CacheTouch(c, key) ==
    LET i == CHOOSE j \in 1..Len(c) : c[j].key = key
    IN  SubSeq(c, 1, i - 1) \o SubSeq(c, i + 1, Len(c)) \o <<c[i]>>

\* A miss stores the computed value, evicting the least recently used entry
\* (the first of the sequence) when the cache is full.
CacheInsert(c, key, value) ==
    (IF Len(c) >= maxsize THEN Tail(c) ELSE c) \o <<[key |-> key, value |-> value]>>

\* Line 278: each cached record becomes {"kode": ..., "nama": ...}.
JsonList(results) ==
    List([k \in 1..Len(results) |-> [kode |-> results[k][1], nama |-> results[k][2]]])

SuggestArgs(level, query, prov, kabupaten, kecamatan) ==
    [level |-> level, query |-> query, prov |-> prov, kabupaten |-> kabupaten, kecamatan |-> kecamatan]

\* GET /{level}: api_get_suggestions calling the memoized
\* get_cached_suggestions.  path records the branch taken: the level test of
\* line 276, a hit or a miss of the memo (a miss that finds it full evicts),
\* or an exception out of the body, which lru_cache does not store.
api_get_suggestions(level, query, prov, kabupaten, kecamatan) ==
    LET a == SuggestArgs(level, query, prov, kabupaten, kecamatan)
        key == CacheKey(level, query, prov, kabupaten, kecamatan)
    IN  IF ~IsLevel(level)
        THEN /\ response' = [ op |-> "suggest", args |-> a, status |-> "ok",
                              path |-> "invalid_level", result |-> <<>> ]
             /\ UNCHANGED <<df_master, cache, loading>>
        ELSE IF CacheHit(cache, key)
        THEN /\ response' = [ op |-> "suggest", args |-> a, status |-> "ok",
                              path |-> "hit", result |-> JsonList(CacheValue(cache, key)) ]
             /\ cache' = CacheTouch(cache, key)
             /\ UNCHANGED <<df_master, loading>>
        ELSE IF SuggestionsRaise(df_master, level, query, prov, kabupaten, kecamatan)
        THEN /\ response' = [ op |-> "suggest", args |-> a, status |-> "error",
                              path |-> "raise", result |-> <<>> ]
             /\ UNCHANGED <<df_master, cache, loading>>
        ELSE LET results == Suggestions(df_master, level, query, prov, kabupaten, kecamatan)
             IN  /\ response' = [ op |-> "suggest", args |-> a, status |-> "ok",
                                  path |-> IF Len(cache) >= maxsize THEN "miss_evict" ELSE "miss",
                                  result |-> JsonList(results) ]
                 /\ cache' = CacheInsert(cache, key, results)
                 /\ UNCHANGED <<df_master, loading>>

\* No load_data call is in progress.
NotLoading == [pc |-> 0, source |-> <<>>, df |-> <<>>]

\* load_data: df_master is replaced by the loaded table, or by the empty
\* frame when loading raises; the suggestion cache is left as it is.  The
\* outcome names the table master.csv held and the level load_data logged at.
load_data(src) ==
    /\ df_master' = LoadFrame(src)
    /\ response' = [ op |-> "load", source |-> src,
                     logged |-> IF ~src.readable \/ ~(RequiredColumns \subseteq src.columns)
                                THEN "error" ELSE "info" ]
    /\ UNCHANGED <<cache, loading>>


(***************************************************************************)
(* The requests the model makes                                            *)
(***************************************************************************)

\* The tables master.csv may hold when load_data runs.
Sources == {SourceA, SourceB, SourceM, SourceL, SourceEmpty, SourceMissing, SourceNoColumn}

SmallSources == {SourceA, SourceB, SourceEmpty, SourceMissing, SourceNoColumn}

\* /search inputs, per level: empty, a code of the level's width, digits of
\* another length, text in mixed case, text with "." and with "(", text one
\* character longer than TRUNCATE.
ProvInputs == { <<>>, <<"3", "1">>, <<"3">>, <<"J", "a">>, <<"(">> }

KabInputs == { <<>>, <<"0", "1">>, <<"1">>, <<"J", "A", "K", "S", "E", "L">>, <<"j", ".">> }

KecInputs == { <<>>, <<"0", "1", "0">>, <<"T", "e", "b", "e", "t">>, <<"t", "e">> }

DesaInputs ==
    { <<>>, <<"0", "0", "1">>, <<"1", "2", "3", "4">>, <<"a">>,
      LongName \o <<"q">>, <<"(">> \o LongName }

SearchInputs ==
    { SearchArgs(p, pe, k, ke, c, ce, d, de, e) :
        p \in ProvInputs, pe \in BOOLEAN, k \in KabInputs, ke \in BOOLEAN,
        c \in KecInputs, ce \in BOOLEAN, d \in DesaInputs, de \in BOOLEAN,
        e \in BOOLEAN }

\* Suggestion arguments: the four levels and a name that is none of them;
\* queries that are empty, one character (bare and blank-padded), several
\* characters, digits, and text with "." and "("; ancestor codes present in
\* the tables and absent from them.
LevelInputs == {"prov", "kabupaten", "kecamatan", "desa", "dusun"}

QueryInputs ==
    { <<>>, <<"j">>, <<" ", "J">>, <<"j", " ">>, <<"j", "a">>, <<"J", "a", "k">>, <<"a", "l">>, <<"j", ".">>, <<"(", "j">>, <<"1">>, <<"0", "1">>, <<"3">>, <<"k", "a", "b">> }

ProvCodes == { <<>>, <<"3", "1">>, <<"3", "2">>, <<"1", "1">>, <<"9", "9">> }

KabCodes == { <<>>, <<"0", "1">>, <<"0", "3">> }

KecCodes == { <<>>, <<"0", "1", "0">> }

\* The requests of a session that keeps the memo across calls.
SessionLevels == {"prov", "kabupaten", "dusun"}

SessionQueries == { <<>>, <<"j">>, <<"(", "j">> }

SessionProvCodes == { <<>>, <<"3", "1">> }

SessionSearches ==
    { SearchArgs(<<>>, FALSE, <<>>, FALSE, <<>>, FALSE, <<>>, FALSE, FALSE),
      SearchArgs(<<"3", "1">>, FALSE, <<>>, FALSE, <<>>, FALSE, <<>>, FALSE, TRUE) }

(***************************************************************************)
(* Specifications                                                          *)
(***************************************************************************)

\* The state once the module is imported: line 96 has called load_data once.
InitFrom(srcs) ==
    \E src \in srcs :
        /\ df_master = LoadFrame(src)
        /\ cache = <<>>
        /\ loading = NotLoading
        /\ response = [ op |-> "load", source |-> src,
                        logged |-> IF ~src.readable \/ ~(RequiredColumns \subseteq src.columns)
                                   THEN "error" ELSE "info" ]

\* /search requests over every table.
InitSearch == InitFrom(Sources)

\* The first request after start-up is a /search; the handler reads df_master
\* and its arguments only, so every later /search behaves as this one.
FirstSearch == response.op = "load" /\ \E a \in SearchInputs : api_search_table(a)

NextSearch == FirstSearch

SpecSearch == InitSearch /\ [][NextSearch]_vars


(***************************************************************************)
(* Claims about /search                                                    *)
(***************************************************************************)

Range(f) == {f[i] : i \in DOMAIN f}

Min(a, b) == IF a <= b THEN a ELSE b

\* s contains t as a literal substring.
HasSubstring(s, t) == \E i \in 1..(Len(s) - Len(t) + 1) : SubSeq(s, i, i + Len(t) - 1) = t

Filtered == response.op = "search" /\ response.status \in {"success", "no_matches"}

\* The code widths the specification states: 2, 2, 3, 3.
SpecWidth(l) == IF l \in {1, 2} THEN 2 ELSE 3

\* C1: at every level, an all-digit input whose length is the level's code
\* width keeps exactly the rows of the previous stage whose code at that
\* level equals the input, whether the level's exact flag is set or not; the
\* name column plays no part.
C1_WidthDigitsMatchCode ==
    Filtered =>
        \A l \in Levels :
            LET val == ArgVal(response.args, l)
            IN  (IsDigit(val) /\ Len(val) = SpecWidth(l)) =>
                    response.stages[l + 1] =
                        SelectSeq(response.stages[l],
                                  LAMBDA i : df_master[i][CodeColumns[l]] = val)

\* A level with a code-width digit input and its exact flag set has kept
\* some rows of the stage before it and dropped others.
C1_Witness ==
    /\ Filtered
    /\ \E l \in Levels :
        /\ IsDigit(ArgVal(response.args, l))
        /\ Len(ArgVal(response.args, l)) = SpecWidth(l)
        /\ ArgExact(response.args, l)
        /\ response.stages[l + 1] # <<>>
        /\ Len(response.stages[l + 1]) < Len(response.stages[l])

\* Whether level l's criterion alone, applied to the whole table, keeps row i.
LevelKeeps(a, l, i) ==
    LET val == Prefix(ArgVal(a, l), TRUNCATE)
    IN  IF IsDigit(val) /\ Len(val) = SpecWidth(l)
        THEN df_master[i][CodeColumns[l]] = val
        ELSE IF ArgExact(a, l)
             THEN df_master[i][SearchColumns[l]] = Lower(val)
             ELSE StrContains(df_master[i][SearchColumns[l]], Lower(val))

\* C2: the filtered set (before deduplication) holds exactly the rows that
\* satisfy the criterion of every level whose input is non-empty, in table
\* order; with prov "31" and kab "01" every filtered row has province code
\* "31" and regency code "01".
C2_FilterIsConjunction ==
    Filtered =>
        /\ response.stages[5] =
               SelectSeq([i \in 1..Len(df_master) |-> i],
                         LAMBDA i : \A l \in Levels :
                             ArgVal(response.args, l) # <<>> => LevelKeeps(response.args, l, i))
        /\ (response.args.prov = <<"3", "1">> /\ response.args.kab = <<"0", "1">>) =>
               \A i \in Range(response.stages[5]) :
                   /\ df_master[i]["kode_prov"] = <<"3", "1">>
                   /\ df_master[i]["kode_kab"] = <<"0", "1">>

\* prov "31" and kab "01", neither exact, found rows although the table also
\* has a regency "01" under another province.
C2_Witness ==
    /\ response.op = "search" /\ response.status = "success"
    /\ response.args.prov = <<"3", "1">> /\ ~response.args.prov_exact
    /\ response.args.kab = <<"0", "1">> /\ ~response.args.kab_exact
    /\ response.args.kec = <<>> /\ response.args.desa = <<>>
    /\ \E i \in 1..Len(df_master) :
        df_master[i]["kode_kab"] = <<"0", "1">> /\ df_master[i]["kode_prov"] # <<"3", "1">>

AllInputsEmpty ==
    /\ response.op = "search"
    /\ response.args.prov = <<>> /\ response.args.kab = <<>>
    /\ response.args.kec = <<>> /\ response.args.desa = <<>>

\* C9 as stated: a /search with all four inputs empty returns "awaiting
\* input" in every state of the dataset.
C9_AwaitingInEveryDatasetState == AllInputsEmpty => response.status = "awaiting"

\* C9, amended: a /search with all four inputs empty returns "awaiting input"
\* when the dataset has rows and "no dataset loaded" when it has none, for
\* every value of the exact and expand flags; it never returns "no matches"
\* and never a row list.
C9_AwaitingUnlessNoDataset ==
    AllInputsEmpty =>
        /\ response.status = (IF IsEmpty(df_master) THEN "no_dataset" ELSE "awaiting")
        /\ response.rows = <<>>

\* An empty-criteria /search with expand and an exact flag set, on a table
\* with rows.
C9_Witness ==
    /\ AllInputsEmpty
    /\ response.args.expand /\ response.args.desa_exact
    /\ ~IsEmpty(df_master)
    /\ response.status = "awaiting"

\* The number of rows the filtered set has at view level n: one per distinct
\* code key from the province down to level n for n < 4, where the handler
\* deduplicates; the filtered rows themselves at level 4, where it does not.
RowsAtLevel(filtered, n) ==
    IF n \in 1..3
    THEN Cardinality({CodeKey(df_master, i, n) : i \in Range(filtered)})
    ELSE Len(filtered)

Succeeded == response.op = "search" /\ response.status = "success"

\* C11: at view levels 1, 2 and 3 every composite code key (province down to
\* the view level) present among the filtered rows is carried by exactly one
\* row of the set the handler has before truncation, and that set holds
\* filtered rows only.
C11_OneRowPerKey ==
    (Succeeded /\ response.view_level \in 1..3) =>
        LET n == response.view_level
            filtered == response.stages[5]
            out == response.deduped
        IN  /\ Range(out) \subseteq Range(filtered)
            /\ \A i \in Range(filtered) :
                   Cardinality({k \in 1..Len(out) :
                                   CodeKey(df_master, out[k], n) = CodeKey(df_master, i, n)}) = 1

\* View level 2: several filtered rows share a (province, regency) key, two
\* keys share the regency code alone, and one row per key is left.
C11_Witness ==
    /\ Succeeded /\ response.view_level = 2
    /\ \E i, j \in Range(response.stages[5]) :
           i # j /\ CodeKey(df_master, i, 2) = CodeKey(df_master, j, 2)
    /\ \E i, j \in Range(response.stages[5]) :
           /\ df_master[i]["kode_kab"] = df_master[j]["kode_kab"]
           /\ df_master[i]["kode_prov"] # df_master[j]["kode_prov"]
    /\ Len(response.deduped) < Len(response.stages[5])
    /\ Len(response.deduped) > 1

\* C14 as stated: at view level 4 no two output rows carry the same four
\* codes.
C14_VillageRowsDistinct ==
    (Succeeded /\ response.view_level = 4) =>
        \A j, k \in 1..Len(response.rows) :
            j # k => CodeKey(df_master, response.rows[j], 4) # CodeKey(df_master, response.rows[k], 4)

\* The deepest level whose input is not empty.
DeepestInput(a) ==
    CHOOSE l \in Levels :
        ArgVal(a, l) # <<>> /\ \A m \in Levels : m > l => ArgVal(a, m) = <<>>

\* C15: the view level of a result table is the deepest level with a
\* non-empty input, whatever the shallower inputs are, plus one when expand
\* is set and that level is below 4; it lies in 1..4, and it is 4 whenever
\* the village input is given.
C15_ViewLevelFromDeepestInput ==
    Succeeded =>
        LET base == DeepestInput(response.args)
        IN  /\ response.view_level =
                   (IF response.args.expand /\ base < 4 THEN base + 1 ELSE base)
            /\ response.view_level \in 1..4
            /\ response.args.desa # <<>> => response.view_level = 4

\* A regency input alone (no province input) with expand gives view level 3;
\* the table has rows at that level.
C15_Witness ==
    /\ Succeeded
    /\ response.args.prov = <<>> /\ response.args.kab # <<>>
    /\ response.args.kec = <<>> /\ response.args.desa = <<>>
    /\ response.args.expand
    /\ response.view_level = 3
    /\ response.rows # <<>>

\* Whether the input val is a code of level l: all digits, of the level's
\* code width.
IsCodeInput(val, l) == IsDigit(val) /\ Len(val) = SpecWidth(l)

\* C16 as stated: a non-empty input that is not a code of its level is
\* matched against the level's lowercase name only, lowercased: by equality
\* when the level's exact flag is set, by literal substring containment
\* otherwise; the handler answers with a table or with "no matches".
C16_TextInputMatchesName ==
    (response.op = "search" /\ ~IsEmpty(df_master) /\ ~AllInputsEmpty) =>
        /\ Filtered
        /\ \A l \in Levels :
               LET val == Prefix(ArgVal(response.args, l), TRUNCATE)
               IN  (val # <<>> /\ ~IsCodeInput(val, l)) =>
                       response.stages[l + 1] =
                           SelectSeq(response.stages[l],
                                     LAMBDA i :
                                         IF ArgExact(response.args, l)
                                         THEN df_master[i][SearchColumns[l]] = Lower(val)
                                         ELSE HasSubstring(df_master[i][SearchColumns[l]], Lower(val)))

\* C18 as stated: a level whose input is longer than 50 characters raises no
\* error and keeps, of the rows the level before it kept, exactly those the
\* handler keeps for the input's first 50 characters.
C18_LongInputAsItsPrefix ==
    (response.op = "search" /\ ~IsEmpty(df_master)) =>
        \A l \in Levels :
            LET val == ArgVal(response.args, l)
            IN  Len(val) > 50 =>
                    /\ ~ApplyFilterRaises(val, ArgExact(response.args, l), CodeWidth[l])
                    /\ Filtered =>
                           response.stages[l + 1] =
                               apply_filter(df_master, response.stages[l], SubSeq(val, 1, 50),
                                            ArgExact(response.args, l), CodeColumns[l],
                                            SearchColumns[l], CodeWidth[l])

\* The qualifying rows that are the first, in dataset order, to carry their
\* code key from the province down to level n.
FirstOccurrences(filtered, n) ==
    SelectSeq(filtered,
              LAMBDA i : \A j \in Range(filtered) :
                             CodeKey(df_master, j, n) = CodeKey(df_master, i, n) => i <= j)

\* C20 as stated: the rows returned are in dataset order, each is the first
\* qualifying row of its deduplication key (the codes from the province down
\* to the view level), and they are the first 100 of those rows; the answer
\* is the one the handler computes from the dataset and the arguments alone.
C20_DatasetOrderFirstOccurrence ==
    Succeeded =>
        /\ \A j, k \in 1..Len(response.rows) : j < k => response.rows[j] < response.rows[k]
        /\ response.rows =
               Prefix(FirstOccurrences(response.stages[5], response.view_level), 100)
        /\ response.rows = SearchTable(df_master, response.args).rows


\* Suggestion requests answered by a cold cache: the first request after
\* start-up, which runs the body of get_cached_suggestions.
InitSuggest == InitFrom(Sources)

FirstSuggestion ==
    /\ response.op = "load"
    /\ \E level \in LevelInputs, query \in QueryInputs,
          prov \in ProvCodes, kab \in KabCodes, kec \in KecCodes :
          api_get_suggestions(level, query, prov, kab, kec)

NextSuggest == FirstSuggestion

SpecSuggest == InitSuggest /\ [][NextSuggest]_vars

(***************************************************************************)
(* Claims about suggestions                                                *)
(***************************************************************************)

Answered == response.op = "suggest" /\ response.status = "ok"

\* The ancestor arguments of a suggestion call, by level (1: province,
\* 2: regency, 3: district).
AncestorArg(a, l) == <<a.prov, a.kabupaten, a.kecamatan>>[l]

\* C3: every returned (code, name) pair comes from a dataset row whose code
\* at each ancestor level strictly above the requested level equals the
\* non-empty ancestor code supplied for it.
C3_AncestorScoped ==
    (Answered /\ IsLevel(response.args.level)) =>
        \A k \in 1..Len(response.result) :
            \E i \in 1..Len(df_master) :
                /\ df_master[i][CodeColumns[LevelOf(response.args.level)]] = response.result[k].kode
                /\ df_master[i][NameColumns[LevelOf(response.args.level)]] = response.result[k].nama
                /\ \A al \in 1..(LevelOf(response.args.level) - 1) :
                       AncestorArg(response.args, al) # <<>> =>
                           df_master[i][CodeColumns[al]] = AncestorArg(response.args, al)

\* District suggestions under province "31" were returned while a district of
\* another province, not among them, has a name the query matches too.
C3_Witness ==
    /\ Answered
    /\ response.args.level = "kecamatan"
    /\ response.args.prov = <<"3", "1">>
    /\ response.args.query = <<"a", "l">>
    /\ response.result # <<>>
    /\ \E i \in 1..Len(df_master) :
        /\ df_master[i]["kode_prov"] # <<"3", "1">>
        /\ StrContains(df_master[i]["_search_kec"], <<"a", "l">>)
        /\ \A k \in 1..Len(response.result) :
               response.result[k].nama # df_master[i]["kec_nama"]

\* The ancestor argument of level al as the specification reads it for a
\* request at level l: ignored unless al is strictly above l.
Meaningful(a, al) ==
    IF IsLevel(a.level) /\ al < LevelOf(a.level) THEN AncestorArg(a, al) ELSE <<>>

\* C4 as stated: the answer is the one the same call gives with the codes at
\* or below the requested level left empty.
C4_LowerCodesIgnored ==
    (Answered /\ IsLevel(response.args.level)) =>
        response.result =
            JsonList(Suggestions(df_master, response.args.level, response.args.query,
                                 Meaningful(response.args, 1), Meaningful(response.args, 2),
                                 Meaningful(response.args, 3)))

\* The rows a suggestion call draws its candidates from.
CandidateRows(a) ==
    LET scope == AncestorScope(df_master, a.prov, a.kabupaten, a.kecamatan)
        q == NormalQuery(a.query)
    IN  IF q = <<>> THEN Range(scope)
        ELSE Range(TextFilter(df_master, scope, LevelOf(a.level), q))

Candidates(a) ==
    { [ kode |-> df_master[i][CodeColumns[LevelOf(a.level)]],
        nama |-> df_master[i][NameColumns[LevelOf(a.level)]] ] : i \in CandidateRows(a) }

\* C5: the list has at most 20 entries, no (code, name) pair twice, codes in
\* ascending order; its entries are candidates, all of them when there are at
\* most 20, and otherwise 20 of them with no omitted candidate's code smaller
\* than a returned one.
C5_SortedDistinctTop20 ==
    (Answered /\ IsLevel(response.args.level)) =>
        LET res == response.result
            cands == Candidates(response.args)
        IN  /\ Len(res) <= 20
            /\ \A j, k \in 1..Len(res) : j < k =>
                   /\ res[j] # res[k]
                   /\ ~StrLess(res[k].kode, res[j].kode)
            /\ Range(res) \subseteq cands
            /\ Len(res) = Min(Cardinality(cands), 20)
            /\ \A c \in cands \ Range(res) :
                   \A k \in 1..Len(res) : ~StrLess(c.kode, res[k].kode)

\* More than 20 candidates, stored in a table that is not in code order: 20
\* are returned.
C5_Witness ==
    /\ Answered /\ IsLevel(response.args.level)
    /\ Cardinality(Candidates(response.args)) > 20
    /\ Len(response.result) = 20
    /\ \E i \in 1..(Len(df_master) - 1) :
        StrLess(df_master[i + 1][CodeColumns[LevelOf(response.args.level)]],
                df_master[i][CodeColumns[LevelOf(response.args.level)]])

\* The rows C6 says a query that is not all digits keeps.
TextMatchRows(a) ==
    LET scope == Range(AncestorScope(df_master, a.prov, a.kabupaten, a.kecamatan))
        name(i) == df_master[i][SearchColumns[LevelOf(a.level)]]
    IN  IF Len(a.query) = 1
        THEN {i \in scope : StartsWith(name(i), Lower(a.query))}
        ELSE {i \in scope : HasSubstring(name(i), Lower(a.query))}

\* C6 as stated: a query of one character that is not a digit keeps exactly
\* the scoped rows whose lowercase name starts with it, lowercased; a query
\* of two or more characters, not all digits, keeps exactly the scoped rows
\* whose lowercase name contains it, lowercased, as a substring.
C6_PrefixOrSubstring ==
    (/\ response.op = "suggest"
     /\ IsLevel(response.args.level)
     /\ response.args.query # <<>>
     /\ ~IsDigit(response.args.query)
     /\ ~IsEmpty(df_master)) =>
        /\ response.status = "ok"
        /\ response.result =
               JsonList(TopSuggestions(
                   CodeNamePairs(df_master,
                                 SelectSeq([i \in 1..Len(df_master) |-> i],
                                           LAMBDA i : i \in TextMatchRows(response.args)),
                                 LevelOf(response.args.level))))

\* The scoped rows whose code at level l contains the query.
CodeMatchRows(a) ==
    SelectSeq(AncestorScope(df_master, a.prov, a.kabupaten, a.kecamatan),
              LAMBDA i : HasSubstring(df_master[i][CodeColumns[LevelOf(a.level)]], a.query))

\* C17: for a non-empty all-digit query the call answers, and its candidates
\* are exactly the ancestor-scoped rows whose code at the requested level
\* contains the query as a substring, at any position; the name plays no
\* part.
C17_DigitQueryMatchesCode ==
    (response.op = "suggest" /\ IsLevel(response.args.level) /\ IsDigit(response.args.query)) =>
        /\ response.status = "ok"
        /\ response.result =
               JsonList(TopSuggestions(CodeNamePairs(df_master, CodeMatchRows(response.args),
                                                     LevelOf(response.args.level))))

\* A digit query returned a pair whose code holds it past the first
\* character and whose name does not hold it, and left out a scoped row whose
\* name holds it.
C17_Witness ==
    /\ Answered /\ IsLevel(response.args.level) /\ IsDigit(response.args.query)
    /\ \E k \in 1..Len(response.result) :
           /\ ~StartsWith(response.result[k].kode, response.args.query)
           /\ ~HasSubstring(response.result[k].nama, response.args.query)
    /\ \E i \in Range(AncestorScope(df_master, response.args.prov, response.args.kabupaten,
                                     response.args.kecamatan)) :
           /\ HasSubstring(df_master[i][NameColumns[LevelOf(response.args.level)]],
                           response.args.query)
           /\ \A k \in 1..Len(response.result) :
                  response.result[k].nama # df_master[i][NameColumns[LevelOf(response.args.level)]]


(***************************************************************************)
(* Sessions: calls that share the memo, with and without reloads           *)
(***************************************************************************)

Suggest(provs) ==
    \E level \in SessionLevels, query \in SessionQueries, prov \in provs :
        api_get_suggestions(level, query, prov, <<>>, <<>>)

SearchRequest == \E a \in SessionSearches : api_search_table(a)

Reload == \E src \in SmallSources : load_data(src)

\* Requests in any order on the dataset loaded at start-up.
InitStable == InitFrom(SmallSources \cup {SourceM})

SuggestStable == Suggest(SessionProvCodes)

NextStable == SuggestStable \/ SearchRequest

SpecStable == InitStable /\ [][NextStable]_vars

\* The whole program: requests in any order, and load_data called again at
\* any time.
Init == InitFrom(SmallSources)

SuggestAny == Suggest({<<>>})

Next == Reload \/ SuggestAny \/ SearchRequest

Spec == Init /\ [][Next]_vars

\* An outage: the table loaded at start-up has rows or cannot be loaded, and
\* every later load_data fails, so that df_master is empty exactly when the
\* last load_data failed.
FailingSources == {SourceMissing, SourceNoColumn}

InitOutage == InitFrom({SourceA, SourceB} \cup FailingSources)

FailedReload == \E src \in FailingSources : load_data(src)

NextOutage == FailedReload \/ SuggestAny \/ SearchRequest

SpecOutage == InitOutage /\ [][NextOutage]_vars


(***************************************************************************)
(* load_data, one statement at a time                                      *)
(***************************************************************************)

\* Line 78: df = pd.read_csv(DATA_PATH, dtype=str).fillna(""), the columns
\* the file has, nothing padded, no search column.
ReadFrame(src) ==
    List([i \in 1..Len(src.rows) |->
             [c \in DOMAIN src.rows[i] |-> ReadCell(src.rows[i][c])]])

\* Lines 80-83, the statement for level l: df[code] = df[code].str.strip().str.zfill(width).
ZFillColumn(df, l) ==
    List([i \in 1..Len(df) |->
             [df[i] EXCEPT ![CodeColumns[l]] = ZFill(Strip(@), CodeWidth[l])]])

\* Lines 85-88, the statement for level l: df[search] = df[name].str.lower().
LowerColumn(df, l) ==
    List([i \in 1..Len(df) |->
             df[i] @@ (SearchColumns[l] :> Lower(df[i][NameColumns[l]]))])

\* The column the statement at line pc reads.
ColumnAt(pc) == IF pc <= 83 THEN CodeColumns[pc - 79] ELSE NameColumns[pc - 84]

\* The local table after the statement at line pc.
StatementAt(pc, df) == IF pc <= 83 THEN ZFillColumn(df, pc - 79) ELSE LowerColumn(df, pc - 84)

\* The statement that follows line pc: 80, 81, 82, 83, 85, 86, 87, 88, 90.
NextLine(pc) == IF pc = 83 THEN 85 ELSE IF pc = 88 THEN 90 ELSE pc + 1

\* A plausible slip: the global bound at line 78 and normalized in place.
VisibleWhileLoading_inPlace(old, df) == df

\* What df_master is while lines 78-88 run: df is a local of load_data, so
\* the global is the table it was.
VisibleWhileLoading(old, df) == old

\* Lines 92-94: the except branch.
load_data_except(src) ==
    /\ df_master' = EmptyFrame
    /\ response' = [op |-> "load", source |-> src, logged |-> "error"]
    /\ loading' = NotLoading
    /\ UNCHANGED cache

\* Lines 76-78: read_csv returns the table, or raises.
load_data_read(src) ==
    /\ loading.pc = 0
    /\ IF ~src.readable
       THEN load_data_except(src)
       ELSE /\ loading' = [pc |-> 80, source |-> src, df |-> ReadFrame(src)]
            /\ df_master' = VisibleWhileLoading(df_master, ReadFrame(src))
            /\ UNCHANGED <<cache, response>>

\* One of lines 80-88: the statement normalizes its column of df, or raises
\* KeyError when the file has no such column.
load_data_normalize ==
    /\ loading.pc \in 80..88
    /\ IF ColumnAt(loading.pc) \notin loading.source.columns
       THEN load_data_except(loading.source)
       ELSE /\ loading' = [loading EXCEPT !.pc = NextLine(@),
                                           !.df = StatementAt(loading.pc, @)]
            /\ df_master' = VisibleWhileLoading(df_master, StatementAt(loading.pc, loading.df))
            /\ UNCHANGED <<cache, response>>

\* Line 90: df_master = df.
load_data_assign ==
    /\ loading.pc = 90
    /\ df_master' = loading.df
    /\ response' = [op |-> "load", source |-> loading.source, logged |-> "info"]
    /\ loading' = NotLoading
    /\ UNCHANGED cache

\* load_data called again at any time, with requests served between two of
\* its statements (a call made from another thread than the event loop's).
InitLoad == InitFrom(SmallSources)

StartLoad == \E src \in SmallSources : load_data_read(src)

\* GET /prov with no query and no ancestor code.
SuggestProvinces == api_get_suggestions("prov", <<>>, <<>>, <<>>, <<>>)

NextLoad ==
    StartLoad \/ load_data_normalize \/ load_data_assign \/ SuggestProvinces \/ SearchRequest

SpecLoad == InitLoad /\ [][NextLoad]_vars

\* What an uncached run of get_cached_suggestions over df_master answers to
\* the arguments a.
Uncached(a) ==
    JsonList(Suggestions(df_master, a.level, a.query, a.prov, a.kabupaten, a.kecamatan))

UncachedRaises(a) ==
    SuggestionsRaise(df_master, a.level, a.query, a.prov, a.kabupaten, a.kecamatan)

\* C7: while the dataset stays as loaded, whatever calls came before (hits,
\* misses, evictions, /search calls), a suggestion call's outcome is a
\* function of its arguments: the list, in order, that the body computes for
\* them, or its exception; and every memo entry holds that list for its key.
C7_AnswerDependsOnArgsOnly ==
    /\ (response.op = "suggest" /\ IsLevel(response.args.level)) =>
           IF UncachedRaises(response.args)
           THEN response.status = "error"
           ELSE response.status = "ok" /\ response.result = Uncached(response.args)
    /\ \A i \in 1..Len(cache) :
           cache[i].value =
               Suggestions(df_master, cache[i].key[1], cache[i].key[2], cache[i].key[3],
                           cache[i].key[4], cache[i].key[5])
    /\ response.op = "search" => response = [op |-> "search", args |-> response.args]
                                                @@ SearchTable(df_master, response.args)

\* A repeated call answered from a full memo with a non-empty list.
C7_Witness ==
    /\ response.op = "suggest" /\ response.path = "hit"
    /\ Len(cache) = maxsize
    /\ response.result # <<>>

\* C8 as stated: after any sequence of load_data and suggestion calls, a
\* suggestion call returns the list an uncached computation over the
\* currently loaded dataset returns.
C8_NoStaleSuggestions ==
    (Answered /\ IsLevel(response.args.level)) => response.result = Uncached(response.args)


(***************************************************************************)
(* Claims about load_data                                                  *)
(***************************************************************************)

\* C12 as stated: every row of the loaded dataset has a province and a
\* regency code of exactly 2 digits and a district and a village code of
\* exactly 3 digits, whatever the source held.
C12_CodesFixedWidthDigits ==
    \A i \in 1..Len(df_master) :
        \A l \in Levels :
            /\ Len(df_master[i][CodeColumns[l]]) = SpecWidth(l)
            /\ IsDigit(df_master[i][CodeColumns[l]])

\* C13 as stated: a load_data that fails leaves the dataset empty, and while
\* it is empty for that reason every /search returns "no dataset loaded" and
\* every suggestion call returns the empty list.
C13_FailedLoadEmptiesAnswers ==
    /\ (response.op = "load" /\ response.logged = "error") => IsEmpty(df_master)
    /\ IsEmpty(df_master) =>
           /\ response.op = "search" => response.status = "no_dataset"
           /\ response.op = "suggest" => (response.status = "ok" /\ response.result = <<>>)

Loaded == response.op = "load" /\ response.logged = "info"

\* Whether the source cell is missing: an empty field or one of read_csv's
\* missing-value markers.
Missing(i, column) == response.source.rows[i][column] \in NaValues

\* C19 as stated: after a successful load every missing source value, in a
\* code column or in a name column, is stored as the empty string.
C19_MissingStoredEmpty ==
    Loaded =>
        \A i \in 1..Len(df_master) :
            \A l \in Levels :
                /\ Missing(i, CodeColumns[l]) => df_master[i][CodeColumns[l]] = <<>>
                /\ Missing(i, NameColumns[l]) => df_master[i][NameColumns[l]] = <<>>

\* C19, amended: after a successful load the dataset has one row per source
\* row; a missing name is stored as the empty string, and so is its lowercase
\* search form; a missing code is stored as the zeros of the column's width
\* ("00", "00", "000", "000").
C19_MissingNamesEmptyCodesZero ==
    Loaded =>
        /\ Len(df_master) = Len(response.source.rows)
        /\ \A i \in 1..Len(df_master) :
               \A l \in Levels :
                   /\ Missing(i, CodeColumns[l]) =>
                          df_master[i][CodeColumns[l]] = [k \in 1..SpecWidth(l) |-> "0"]
                   /\ Missing(i, NameColumns[l]) =>
                          /\ df_master[i][NameColumns[l]] = <<>>
                          /\ df_master[i][SearchColumns[l]] = <<>>

\* load_data, called again, has loaded a table with an empty code field, a
\* code field holding a marker, an empty name field and a name field holding
\* a marker.
C19_Witness ==
    /\ Loaded
    /\ cache # <<>>
    /\ \E i, j \in 1..Len(df_master) :
           /\ response.source.rows[i]["kode_kec"] = <<>>
           /\ response.source.rows[j]["kode_kec"] = <<"N", "A">>
    /\ \E i, j \in 1..Len(df_master) :
           /\ response.source.rows[i]["kec_nama"] = <<>>
           /\ response.source.rows[j]["desa_nama"] = <<"n", "u", "l", "l">>

\* Whether every row of the table T has all twelve columns, its four codes
\* stripped and zero-filled and its four search columns the lowercase names.
Normalized(T) ==
    \A i \in 1..Len(T) :
        /\ DOMAIN T[i] = RequiredColumns \cup {SearchColumns[l] : l \in Levels}
        /\ \A l \in Levels :
               /\ T[i][CodeColumns[l]] = ZFill(Strip(T[i][CodeColumns[l]]), SpecWidth(l))
               /\ T[i][SearchColumns[l]] = Lower(T[i][NameColumns[l]])

\* C21: at every moment, between any two statements of load_data, the
\* dataset a query sees is a completely normalized table of a source or the
\* empty table; a load_data call that has failed has left it empty, whatever
\* was loaded before, and one that has succeeded has left the table of the
\* source it read.
C21_DatasetReplacedAtomically ==
    /\ Normalized(df_master)
    /\ df_master \in {LoadFrame(src) : src \in SmallSources}
    /\ response.op = "load" =>
           IF loading.pc = 0
           THEN df_master = (IF response.logged = "error" THEN EmptyFrame
                             ELSE LoadFrame(response.source))
           ELSE TRUE

\* A /search was answered from the previously loaded table while load_data,
\* called again for another table, had padded the codes of its local table
\* and not yet added the search columns.
C21_Witness ==
    /\ loading.pc = 85
    /\ loading.df # <<>>
    /\ ~Normalized(loading.df)
    /\ response.op = "search" /\ response.status = "success"
    /\ df_master # LoadFrame(loading.source)

====
